---- MODULE Spec2Model ----
(***************************************************************************)
(* Model of the histogram selector: stage 2 (build_histo.py: hotness and   *)
(* block compression) and stage 3 (solve_math.py: load, vector building,   *)
(* bounded solve, optional second solve, weight rounding and output).      *)
(*                                                                         *)
(* Numbers.  Python floats are modelled by exact rationals: a vector is a  *)
(* record [num |-> <<integers>>, den |-> positive integer] standing for    *)
(* num[i]/den, a similarity is a record [num, den].  Identifiers are the   *)
(* naturals 1..NumIds, their numeric order standing for the string order   *)
(* of the source.  A weight vector is a sequence of numerators over a      *)
(* common denominator (WeightGrid for the solver's result).                *)
(***************************************************************************)
EXTENDS Integers, Sequences, FiniteSets, TLC

\* ---------------------------------------------------------------- bounds
NumIds == 2
MaxCount == 1
MaxEntries == 3
MaxSelected == 2
WeightGrid == 4
MaxWeights == 3
NumKeys == 3
MaxRawCount == 2
MaxProfiles == 2
MaxRecords == 3
MaxLines == 2
MaxFields == 3

Ids == 1..NumIds
MinSimilarities == {50, 95}

\* ------------------------------------------------------- program constants
SelectEps == 1000000
WeightScale == 10000
SimilarityScale == 100

VARIABLES
    data,                  \* contents of stages/histos.json
    max_selected_samples,  \* args.max_selected_samples
    min_similarity,        \* args.min_similarity
    pc,                    \* position inside run_pipeline
    reference,             \* load_histograms: the reference entry
    samples,               \* load_histograms: the usable sample entries
    identifiers_to_index,  \* load_histograms: identifier -> 0-based index
    target,                \* prepare_vectors: normalized target vector
    sample_vectors,        \* prepare_vectors: normalized sample vectors
    weights,               \* w.value of the last solve (numerators)
    weights_den,           \* common denominator of weights
    similarity,            \* similarity of the last solve
    solve_calls,           \* every solver call made: its bound and similarity
    weight_json,           \* contents of stages/weight.json, or Absent
    error,                 \* message of the exception that ended the run
    hotness_compression,   \* build_histo.py: args.hotness_compression
    block_compression,     \* build_histo.py: args.block_compression = "true"
    built,                 \* build_histo.py: the list build_histos returned
    result,                \* build_histo.py: that list object as it is now
    compressed_result,     \* build_histo.py: value returned by the compressor
    recompressed_result,   \* block_compress applied to its own output
    histos_json,           \* contents of stages/histos.json, or Absent
    records,               \* the (identifier, count) records of one .histo file
    histogram,             \* the histogram built from records
    lines,                 \* the lines of one .histo file
    line_num,              \* the number of the line an error message names
    work_dir_exists,       \* os.path.exists(work_dir)
    files_json,            \* contents of stages/files.json, or Unreadable
    exit_code,             \* build_histo.py: status the process exits with
    raised,                \* the exception a stage-2 call raised, or None
    stderr                 \* build_histo.py: what main wrote to stderr

vars3 == <<data, max_selected_samples, min_similarity, reference, samples,
           identifiers_to_index, target, sample_vectors, weights, weights_den,
           similarity, solve_calls, weight_json>>

vars1 == <<lines, line_num, work_dir_exists, files_json, exit_code, stderr,
           raised>>

vars2 == <<hotness_compression, block_compression, built, result,
           compressed_result, recompressed_result, histos_json, records,
           histogram, vars1>>

vars == <<vars3, vars2, pc, error>>

Absent == [absent |-> TRUE]
NoError == ""

\* ------------------------------------------------------------ arithmetic
Abs(x) == IF x < 0 THEN -x ELSE x

Min(x, y) == IF x <= y THEN x ELSE y

RECURSIVE SumSeq(_)
SumSeq(s) == IF s = <<>> THEN 0 ELSE Head(s) + SumSeq(Tail(s))

RECURSIVE ProdSeq(_)
ProdSeq(s) == IF s = <<>> THEN 1 ELSE Head(s) * ProdSeq(Tail(s))

RECURSIVE GCD(_, _)
GCD(x, y) == IF y = 0 THEN x ELSE GCD(y, x % y)

\* round(num/den, digits) in units of 1/scale, ties to even (Python's round);
\* scale and den are cancelled first to keep the products small
RoundTo(num, den, scale) ==
    LET g == GCD(den, scale)
        x == num * (scale \div g)
        d == den \div g
        q == x \div d
        r == x % d
    IN  IF 2 * r < d THEN q
        ELSE IF 2 * r > d THEN q + 1
        ELSE IF q % 2 = 0 THEN q ELSE q + 1

RECURSIVE SortedSeq(_)
SortedSeq(S) ==
    IF S = {} THEN <<>>
    ELSE LET m == CHOOSE x \in S : \A y \in S : x <= y
         IN  <<m>> \o SortedSeq(S \ {m})

\* ------------------------------------------------------------ histograms
Histos == UNION {[D -> 0..MaxCount] : D \in SUBSET Ids}

EmptyHisto == [k \in {} |-> 0]

HistoTotal(histo) ==
    LET ks == SortedSeq(DOMAIN histo)
    IN  SumSeq([i \in 1..Len(ks) |-> histo[ks[i]]])

EntryShapes == [type : {"reference", "sample"}, histo : Histos]

\* ------------------------------------------------- solve_math.py: vectors
ZeroVector(n) == [num |-> [i \in 1..n |-> 0], den |-> 1]

normalize(vector) ==
    LET total == SumSeq(vector.num)
    IN  IF total > 0
        THEN [num |-> [i \in 1..Len(vector.num) |-> vector.num[i] * 100],
              den |-> total]
        ELSE ZeroVector(Len(vector.num))

\* np.minimum(a, b).sum(), as a fraction in lowest terms
compute_similarity(a, b) ==
    LET n == SumSeq([i \in 1..Len(a.num) |->
                        Min(a.num[i] * b.den, b.num[i] * a.den)])
        d == a.den * b.den
        g == GCD(n, d)
    IN  [num |-> n \div g, den |-> d \div g]

SimLess(s, m) == s.num < m * s.den

SimIsZero(s) == s.num = 0

\* ------------------------------------------- solve_math.py: load_histograms
references_of(d) == SelectSeq(d, LAMBDA e : e.type = "reference")

samples_of(d) ==
    SelectSeq(d, LAMBDA e : e.type = "sample" /\ e.histo # EmptyHisto)

all_ids_of(ref, smp) ==
    SortedSeq(DOMAIN ref.histo
              \cup UNION {DOMAIN smp[i].histo : i \in 1..Len(smp)})

\* the index of line 145 counted from the end of the sorted list
index_of_reversed(all_ids) ==
    [k \in {all_ids[i] : i \in 1..Len(all_ids)} |->
        Len(all_ids) - (CHOOSE i \in 1..Len(all_ids) : all_ids[i] = k)]

index_of(all_ids) ==
    [k \in {all_ids[i] : i \in 1..Len(all_ids)} |->
        (CHOOSE i \in 1..Len(all_ids) : all_ids[i] = k) - 1]

\* load_histograms with the sample test made before the empty-reference test
load_histograms_samples_first(d) ==
    LET refs == references_of(d)
    IN  IF refs = <<>>
        THEN [ok |-> FALSE, error |-> "No reference histogram found."]
        ELSE IF Len(refs) > 1
        THEN [ok |-> FALSE, error |-> "Expected exactly one reference histogram"]
        ELSE IF samples_of(d) = <<>>
        THEN [ok |-> FALSE, error |-> "Sample histograms not found."]
        ELSE IF refs[1].histo = EmptyHisto
        THEN [ok |-> FALSE, error |-> "Reference histogram is empty."]
        ELSE LET all_ids == all_ids_of(refs[1], samples_of(d))
             IN  [ok |-> TRUE, error |-> NoError,
                  reference |-> refs[1],
                  samples |-> samples_of(d),
                  all_ids |-> all_ids,
                  identifiers_to_index |-> index_of(all_ids)]

load_histograms(d) ==
    LET refs == references_of(d)
    IN  IF refs = <<>>
        THEN [ok |-> FALSE, error |-> "No reference histogram found."]
        ELSE IF Len(refs) > 1
        THEN [ok |-> FALSE, error |-> "Expected exactly one reference histogram"]
        ELSE IF refs[1].histo = EmptyHisto
        THEN [ok |-> FALSE, error |-> "Reference histogram is empty."]
        ELSE IF samples_of(d) = <<>>
        THEN [ok |-> FALSE, error |-> "Sample histograms not found."]
        ELSE LET all_ids == all_ids_of(refs[1], samples_of(d))
             IN  [ok |-> TRUE, error |-> NoError,
                  reference |-> refs[1],
                  samples |-> samples_of(d),
                  all_ids |-> all_ids,
                  identifiers_to_index |-> index_of(all_ids)]

\* ------------------------------------------- solve_math.py: prepare_vectors
project(histo, idx) ==
    LET n == Cardinality(DOMAIN idx)
    IN  [num |-> [i \in 1..n |->
                    IF \E k \in DOMAIN histo : idx[k] = i - 1
                    THEN histo[CHOOSE k \in DOMAIN histo : idx[k] = i - 1]
                    ELSE 0],
         den |-> 1]

prepare_vectors(ref, smp, idx) ==
    [target |-> normalize(project(ref.histo, idx)),
     sample_vectors |->
        [j \in 1..Len(smp) |-> normalize(project(smp[j].histo, idx))]]

\* ---------------------------------------- solve_math.py: solve_optimization
\* sample_vectors.T @ w for w = weights / WeightGrid
mixture(svs, w) ==
    LET n == Len(svs)
        P == ProdSeq([j \in 1..n |-> svs[j].den])
        dim == Len(svs[1].num)
    IN  [num |-> [i \in 1..dim |->
                    SumSeq([j \in 1..n |->
                              w[j] * svs[j].num[i] * (P \div svs[j].den)])],
         den |-> WeightGrid * P]

\* sum(abs(sample_vectors.T @ w - target)), scaled by mixture.den * tgt.den
objective(svs, tgt, w) ==
    LET m == mixture(svs, w)
    IN  SumSeq([i \in 1..Len(tgt.num) |->
                  Abs(m.num[i] * tgt.den - tgt.num[i] * m.den)])

\* the constraints of line 218 without sum(z) <= max_selected
feasible_unbounded(n, max_selected) ==
    {w \in [1..n -> 0..WeightGrid] : SumSeq(w) = WeightGrid}

\* w >= 0, w <= z, sum(z) <= max_selected, sum(w) == 1, z boolean
feasible(n, max_selected) ==
    {w \in [1..n -> 0..WeightGrid] :
        /\ SumSeq(w) = WeightGrid
        /\ Cardinality({j \in 1..n : w[j] > 0}) <= max_selected}

\* The results an OPTIMAL solve can return (any minimiser of the objective
\* among the grid points of the feasible region); empty when infeasible.
solve_optimization(svs, tgt, max_selected) ==
    LET F == feasible(Len(svs), max_selected)
        obj == [w \in F |-> objective(svs, tgt, w)]
    IN  {w \in F : \A v \in F : obj[w] <= obj[v]}

\* result_vector = normalize(result_vector); compute_similarity(..., target)
similarity_of(svs, tgt, w) ==
    compute_similarity(normalize(mixture(svs, w)), tgt)

\* --------------------------------------------- solve_math.py: write_output
\* the test of line 271 as weights[i] >= 0: every sample is emitted
selected_indices_all(w, den) ==
    SelectSeq([i \in 1..Len(w) |-> i], LAMBDA i : w[i] >= 0)

\* weights[i] > 1e-6, i.e. w[i]/den > 1/SelectEps, for integer w[i]
selected_indices(w, den) ==
    SelectSeq([i \in 1..Len(w) |-> i], LAMBDA i : w[i] > den \div SelectEps)

\* the for/else of lines 279-285 without the break: every weight that stays
\* in [0, 1] is adjusted
repair_all(rounded, diff) ==
    LET cand == {i \in 1..Len(rounded) :
                    0 <= rounded[i] + diff /\ rounded[i] + diff <= WeightScale}
    IN  IF cand = {} THEN [ok |-> FALSE, weights |-> rounded]
        ELSE [ok |-> TRUE,
              weights |-> [i \in 1..Len(rounded) |->
                             IF i \in cand THEN rounded[i] + diff ELSE rounded[i]]]

\* the for/else of lines 279-285 run from the last weight to the first
repair_last(rounded, diff) ==
    LET cand == {i \in 1..Len(rounded) :
                    0 <= rounded[i] + diff /\ rounded[i] + diff <= WeightScale}
    IN  IF cand = {} THEN [ok |-> FALSE, weights |-> rounded]
        ELSE LET f == CHOOSE i \in cand : \A j \in cand : i >= j
             IN  [ok |-> TRUE,
                  weights |-> [rounded EXCEPT ![f] = rounded[f] + diff]]

\* the for/else of lines 279-285: the first weight that stays in [0, 1]
repair(rounded, diff) ==
    LET cand == {i \in 1..Len(rounded) :
                    0 <= rounded[i] + diff /\ rounded[i] + diff <= WeightScale}
    IN  IF cand = {} THEN [ok |-> FALSE, weights |-> rounded]
        ELSE LET f == CHOOSE i \in cand : \A j \in cand : i <= j
             IN  [ok |-> TRUE,
                  weights |-> [rounded EXCEPT ![f] = rounded[f] + diff]]

rounded_of(w, den) ==
    LET sel == selected_indices(w, den)
    IN  [k \in 1..Len(sel) |-> RoundTo(w[sel[k]], den, WeightScale)]

\* write_output with utils.save_json called before the repair loop
write_output_save_first(reference_file_path, sample_files_paths, sim, w, den) ==
    LET sel == selected_indices(w, den)
        rounded_weights == rounded_of(w, den)
        diff == WeightScale - SumSeq(rounded_weights)
        rep == IF Abs(diff) >= 1 THEN repair(rounded_weights, diff)
               ELSE [ok |-> TRUE, weights |-> rounded_weights]
    IN  [ok |-> rep.ok, saved |-> TRUE,
         error |-> IF rep.ok THEN NoError
                   ELSE "Unable to normalize weights to sum to 1.0.",
         json |-> [reference_file |-> reference_file_path,
                   similarity |-> RoundTo(sim.num, sim.den, SimilarityScale),
                   selected_samples |->
                       [k \in 1..Len(sel) |->
                           [sample_path |-> sample_files_paths[sel[k]],
                            weight |-> rep.weights[k]]]]]

write_output(reference_file_path, sample_files_paths, sim, w, den) ==
    LET sel == selected_indices(w, den)
        rounded_weights == rounded_of(w, den)
        diff == WeightScale - SumSeq(rounded_weights)
        rep == IF Abs(diff) >= 1 THEN repair(rounded_weights, diff)
               ELSE [ok |-> TRUE, weights |-> rounded_weights]
    IN  IF ~rep.ok
        THEN [ok |-> FALSE, saved |-> FALSE,
              error |-> "Unable to normalize weights to sum to 1.0."]
        ELSE [ok |-> TRUE, saved |-> TRUE, error |-> NoError,
              json |-> [reference_file |-> reference_file_path,
                        similarity |-> RoundTo(sim.num, sim.den, SimilarityScale),
                        selected_samples |->
                            [k \in 1..Len(sel) |->
                                [sample_path |-> sample_files_paths[sel[k]],
                                 weight |-> rep.weights[k]]]]]

\* ------------------------------------------------ solve_math.py: run_pipeline
None == [none |-> TRUE]

\* a JSON file that cannot be loaded
Unreadable == [readable |-> FALSE, profiles |-> <<>>]

MainIdle ==
    /\ lines = <<>>
    /\ line_num = 0
    /\ work_dir_exists = TRUE
    /\ files_json = Unreadable
    /\ exit_code = None
    /\ stderr = <<>>
    /\ raised = None

Stage2Idle ==
    /\ hotness_compression = 100
    /\ block_compression = FALSE
    /\ built = <<>>
    /\ result = <<>>
    /\ compressed_result = None
    /\ recompressed_result = None
    /\ histos_json = Absent
    /\ records = <<>>
    /\ histogram = None
    /\ MainIdle

Init ==
    /\ \E n \in 0..MaxEntries : \E shape \in [1..n -> EntryShapes] :
          data = [i \in 1..n |-> [type |-> shape[i].type,
                                  source_file |-> i,
                                  histo |-> shape[i].histo]]
    /\ max_selected_samples \in 1..MaxSelected
    /\ min_similarity \in MinSimilarities
    /\ pc = "load"
    /\ reference = None
    /\ samples = <<>>
    /\ identifiers_to_index = None
    /\ target = None
    /\ sample_vectors = <<>>
    /\ weights = <<>>
    /\ weights_den = WeightGrid
    /\ similarity = None
    /\ solve_calls = <<>>
    /\ weight_json = Absent
    /\ error = NoError
    /\ Stage2Idle

Fail(msg) ==
    /\ pc' = "failed"
    /\ error' = msg

\* load_histograms and prepare_vectors (lines 326-329)
run_pipeline_load ==
    /\ pc = "load"
    /\ LET r == load_histograms(data)
       IN  IF ~r.ok
           THEN /\ Fail(r.error)
                /\ UNCHANGED <<reference, samples, identifiers_to_index,
                               target, sample_vectors>>
           ELSE LET v == prepare_vectors(r.reference, r.samples,
                                         r.identifiers_to_index)
                IN  /\ reference' = r.reference
                    /\ samples' = r.samples
                    /\ identifiers_to_index' = r.identifiers_to_index
                    /\ target' = v.target
                    /\ sample_vectors' = v.sample_vectors
                    /\ pc' = "solve"
                    /\ UNCHANGED error
    /\ UNCHANGED <<data, max_selected_samples, min_similarity, weights,
                   weights_den, similarity, solve_calls, weight_json, vars2>>

\* SolveStep with lines 354-355 left out: the similarity of the first solve
\* is kept after a second one
SolveStep_stale(max_selected, next_pc) ==
    /\ \/ /\ Fail("Optimization failed.")
          /\ solve_calls' = Append(solve_calls,
                [max_selected |-> max_selected, similarity |-> None])
          /\ UNCHANGED <<weights, similarity>>
       \/ \E w \in solve_optimization(sample_vectors, target, max_selected) :
            LET sim == IF solve_calls = <<>>
                       THEN similarity_of(sample_vectors, target, w)
                       ELSE similarity
            IN  /\ weights' = w
                /\ similarity' = sim
                /\ solve_calls' = Append(solve_calls,
                      [max_selected |-> max_selected, similarity |-> sim])
                /\ pc' = next_pc
                /\ UNCHANGED error
    /\ UNCHANGED <<data, max_selected_samples, min_similarity, reference,
                   samples, identifiers_to_index, target, sample_vectors,
                   weights_den, weight_json, vars2>>

\* one call of solve_optimization followed by normalize and compute_similarity
SolveStep(max_selected, next_pc) ==
    /\ \/ /\ Fail("Optimization failed.")
          /\ solve_calls' = Append(solve_calls,
                [max_selected |-> max_selected, similarity |-> None])
          /\ UNCHANGED <<weights, similarity>>
       \/ \E w \in solve_optimization(sample_vectors, target, max_selected) :
            LET sim == similarity_of(sample_vectors, target, w)
            IN  /\ weights' = w
                /\ similarity' = sim
                /\ solve_calls' = Append(solve_calls,
                      [max_selected |-> max_selected, similarity |-> sim])
                /\ pc' = next_pc
                /\ UNCHANGED error
    /\ UNCHANGED <<data, max_selected_samples, min_similarity, reference,
                   samples, identifiers_to_index, target, sample_vectors,
                   weights_den, weight_json, vars2>>

\* the first solve with a failure taken as a similarity below the threshold
run_pipeline_solve_recover ==
    /\ pc = "solve"
    /\ \/ /\ solve_calls' = Append(solve_calls,
                [max_selected |-> max_selected_samples, similarity |-> None])
          /\ similarity' = [num |-> 0, den |-> 1]
          /\ pc' = "check"
          /\ UNCHANGED <<data, max_selected_samples, min_similarity,
                         reference, samples, identifiers_to_index, target,
                         sample_vectors, weights, weights_den, weight_json,
                         vars2, error>>
       \/ \E w \in solve_optimization(sample_vectors, target,
                                      max_selected_samples) :
            LET sim == similarity_of(sample_vectors, target, w)
            IN  /\ weights' = w
                /\ similarity' = sim
                /\ solve_calls' = Append(solve_calls,
                      [max_selected |-> max_selected_samples,
                       similarity |-> sim])
                /\ pc' = "check"
                /\ UNCHANGED <<data, max_selected_samples, min_similarity,
                               reference, samples, identifiers_to_index,
                               target, sample_vectors, weights_den,
                               weight_json, vars2, error>>

\* first solve (lines 331-340)
run_pipeline_solve ==
    /\ pc = "solve"
    /\ SolveStep(max_selected_samples, "check")

\* the test of line 342 as similarity <= min_similarity
run_pipeline_resolve_le ==
    /\ pc = "check"
    /\ IF similarity.num <= min_similarity * similarity.den
       THEN SolveStep(Len(sample_vectors), "write")
       ELSE /\ pc' = "write"
            /\ UNCHANGED <<vars3, vars2, error>>

\* the test of line 342 and the second solve (lines 342-355)
run_pipeline_resolve ==
    /\ pc = "check"
    /\ IF SimLess(similarity, min_similarity)
       THEN SolveStep(Len(sample_vectors), "write")
       ELSE /\ pc' = "write"
            /\ UNCHANGED <<vars3, vars2, error>>

\* WriteStep with the paths of line 360 taken from every sample of the input
\* list, the unusable ones included
WriteStep_unfiltered ==
    LET every == SelectSeq(data, LAMBDA e : e.type = "sample")
        r == write_output(reference.source_file,
                          [j \in 1..Len(every) |-> every[j].source_file],
                          similarity, weights, weights_den)
    IN  /\ IF r.saved THEN weight_json' = r.json ELSE UNCHANGED weight_json
        /\ IF r.ok THEN pc' = "done" /\ UNCHANGED error ELSE Fail(r.error)
        /\ UNCHANGED <<data, max_selected_samples, min_similarity, reference,
                       samples, identifiers_to_index, target, sample_vectors,
                       weights, weights_den, similarity, solve_calls, vars2>>

\* write_output and utils.save_json (solve_math.py lines 268-298)
WriteStep ==
    LET r == write_output(reference.source_file,
                          [j \in 1..Len(samples) |-> samples[j].source_file],
                          similarity, weights, weights_den)
    IN  /\ IF r.saved THEN weight_json' = r.json ELSE UNCHANGED weight_json
        /\ IF r.ok THEN pc' = "done" /\ UNCHANGED error ELSE Fail(r.error)
        /\ UNCHANGED <<data, max_selected_samples, min_similarity, reference,
                       samples, identifiers_to_index, target, sample_vectors,
                       weights, weights_den, similarity, solve_calls, vars2>>

\* run_pipeline with a similarity of 0 raised as an error before write_output
run_pipeline_write_zero_fatal ==
    /\ pc = "write"
    /\ IF SimIsZero(similarity)
       THEN /\ Fail("Similarity is 0.")
            /\ UNCHANGED <<vars3, vars2>>
       ELSE WriteStep

\* the call of write_output at the end of run_pipeline (lines 357-363)
run_pipeline_write ==
    /\ pc = "write"
    /\ WriteStep

Next ==
    \/ run_pipeline_load
    \/ run_pipeline_solve
    \/ run_pipeline_resolve
    \/ run_pipeline_write

Spec == Init /\ [][Next]_vars

\* ------------------- runs on longer lists of histograms without zero counts
GapShapes ==
    {e \in EntryShapes : \A k \in DOMAIN e.histo : e.histo[k] > 0}

InitGaps ==
    /\ \E shape \in [1..(MaxEntries + 1) -> GapShapes] :
          data = [i \in 1..(MaxEntries + 1) |->
                     [type |-> shape[i].type,
                      source_file |-> i,
                      histo |-> shape[i].histo]]
    /\ max_selected_samples \in 1..MaxSelected
    /\ min_similarity \in MinSimilarities
    /\ pc = "load"
    /\ reference = None
    /\ samples = <<>>
    /\ identifiers_to_index = None
    /\ target = None
    /\ sample_vectors = <<>>
    /\ weights = <<>>
    /\ weights_den = WeightGrid
    /\ similarity = None
    /\ solve_calls = <<>>
    /\ weight_json = Absent
    /\ error = NoError
    /\ Stage2Idle

SpecGaps == InitGaps /\ [][Next]_vars

\* ------------------------------------- write_output called on its own
WeightValues ==
    {0, 1, 2, 49, 51, 333298, 333333, 333334, 333351, 499951, 500000,
     999949, 999951, 999998, 999999, 1000000}

WeightUnit == SelectEps

InitWrite ==
    /\ \E n \in 0..MaxWeights : \E w \in [1..n -> WeightValues] :
          /\ weights = w
          /\ samples = [j \in 1..n |-> [type |-> "sample", source_file |-> j,
                                        histo |-> [k \in {1} |-> 1]]]
    /\ weights_den = WeightUnit
    /\ reference = [type |-> "reference", source_file |-> 0,
                    histo |-> [k \in {1} |-> 1]]
    /\ similarity \in {[num |-> 0, den |-> 1], [num |-> 100, den |-> 1]}
    /\ data = <<>>
    /\ max_selected_samples = MaxWeights
    /\ min_similarity = 0
    /\ pc = "write_output"
    /\ identifiers_to_index = None
    /\ target = None
    /\ sample_vectors = <<>>
    /\ solve_calls = <<>>
    /\ weight_json = Absent
    /\ error = NoError
    /\ Stage2Idle

write_output_call ==
    /\ pc = "write_output"
    /\ WriteStep

NextWrite == write_output_call

SpecWrite == InitWrite /\ [][NextWrite]_vars

\* ------------------------- stage 3 as a whole: runs and direct calls
InitStage3 == Init \/ InitWrite

NextStage3 ==
    \/ run_pipeline_load
    \/ run_pipeline_solve
    \/ run_pipeline_resolve
    \/ run_pipeline_write
    \/ write_output_call

SpecStage3 == InitStage3 /\ [][NextStage3]_vars

\* ------------------------------------------------------------ stage 2
\* A stage-2 histogram is a Python dict: the sequence of its (key, count)
\* items in insertion order, keys distinct.
Keys == 1..NumKeys

HotnessLevels == {-1, 0, 1, 20, 25, 33, 34, 40, 50, 60, 66, 67, 75, 80, 99, 100, 101}

items_of(D, f) ==
    LET ks == SortedSeq(D)
    IN  [i \in 1..Len(ks) |-> <<ks[i], f[ks[i]]>>]

RawHistos ==
    UNION {{items_of(D, f) : f \in [D -> 0..MaxRawCount]} : D \in SUBSET Keys}

keys_of(histo) == {histo[i][1] : i \in 1..Len(histo)}

values_sum(histo) == SumSeq([i \in 1..Len(histo) |-> histo[i][2]])

\* the items sorted by identifier alone
RECURSIVE sorted_items_by_key(_)
sorted_items_by_key(S) ==
    IF S = {} THEN <<>>
    ELSE LET p == CHOOSE x \in S : \A y \in S : x[1] <= y[1]
         IN  <<p>> \o sorted_items_by_key(S \ {p})

\* sorted(histo.items(), key=lambda item: (-item[1], item[0]))
RECURSIVE sorted_items(_)
sorted_items(S) ==
    IF S = {} THEN <<>>
    ELSE LET p == CHOOSE x \in S : \A y \in S :
                     x[2] > y[2] \/ (x[2] = y[2] /\ x[1] <= y[1])
         IN  <<p>> \o sorted_items(S \ {p})

sorted_histo_of(histo) == sorted_items({histo[i] : i \in 1..Len(histo)})

\* the loop of lines 237-242 as a loop that goes on after an entry that
\* does not fit
RECURSIVE keep_fitting(_, _, _, _)
keep_fitting(sorted_histo, current_hotness, hc, total_sum) ==
    IF sorted_histo = <<>> THEN <<>>
    ELSE LET count == Head(sorted_histo)[2]
         IN  IF 100 * (current_hotness + count) <= hc * total_sum
             THEN <<Head(sorted_histo)>>
                  \o keep_fitting(Tail(sorted_histo), current_hotness + count,
                                  hc, total_sum)
             ELSE keep_fitting(Tail(sorted_histo), current_hotness, hc, total_sum)

\* the loop of lines 237-242 with the entry that crosses the threshold kept
\* as the last one
RECURSIVE keep_crossing(_, _, _, _)
keep_crossing(sorted_histo, current_hotness, hc, total_sum) ==
    IF sorted_histo = <<>> THEN <<>>
    ELSE LET count == Head(sorted_histo)[2]
         IN  IF 100 * (current_hotness + count) <= hc * total_sum
             THEN <<Head(sorted_histo)>>
                  \o keep_crossing(Tail(sorted_histo), current_hotness + count,
                                   hc, total_sum)
             ELSE <<Head(sorted_histo)>>

\* the loop of lines 237-242; threshold = hc / 100
RECURSIVE keep_prefix(_, _, _, _)
keep_prefix(sorted_histo, current_hotness, hc, total_sum) ==
    IF sorted_histo = <<>> THEN <<>>
    ELSE LET count == Head(sorted_histo)[2]
         IN  IF 100 * (current_hotness + count) <= hc * total_sum
             THEN <<Head(sorted_histo)>>
                  \o keep_prefix(Tail(sorted_histo), current_hotness + count,
                                 hc, total_sum)
             ELSE <<>>

compressed_histo_of(histo, hc) ==
    keep_prefix(sorted_histo_of(histo), 0, hc, values_sum(histo))

\* the range test of line 221 with the upper limit excluded
hotness_range_error_strict(hc) == hc < 0 \/ hc >= 100

hotness_range_error(hc) == hc < 0 \/ hc > 100

\* hotness_compress with the range test made after the entries are rewritten
hotness_compress_validate_last(uncompressed_result, hc) ==
    LET out == [i \in 1..Len(uncompressed_result) |->
                   [uncompressed_result[i] EXCEPT
                       !.histo = compressed_histo_of(@, hc)]]
    IN  IF hotness_range_error(hc)
        THEN [ok |-> FALSE,
              error |-> "HOTNESS_COMPRESSION must be between 0 and 100",
              arg |-> out]
        ELSE IF hc = 100
        THEN [ok |-> TRUE, error |-> NoError,
              value |-> uncompressed_result, arg |-> uncompressed_result]
        ELSE [ok |-> TRUE, error |-> NoError, value |-> out, arg |-> out]

\* value: the list returned; arg: the list passed in, as the call leaves it
\* (entry["histo"] = compressed_histo assigns into the caller's entries)
hotness_compress(uncompressed_result, hc) ==
    IF hotness_range_error(hc)
    THEN [ok |-> FALSE, error |-> "HOTNESS_COMPRESSION must be between 0 and 100",
          arg |-> uncompressed_result]
    ELSE IF hc = 100
    THEN [ok |-> TRUE, error |-> NoError,
          value |-> uncompressed_result, arg |-> uncompressed_result]
    ELSE LET out == [i \in 1..Len(uncompressed_result) |->
                        [uncompressed_result[i] EXCEPT
                            !.histo = compressed_histo_of(@, hc)]]
         IN  [ok |-> TRUE, error |-> NoError, value |-> out, arg |-> out]

Stage3Idle ==
    /\ data = <<>>
    /\ max_selected_samples = 1
    /\ min_similarity = 0
    /\ reference = None
    /\ samples = <<>>
    /\ identifiers_to_index = None
    /\ target = None
    /\ sample_vectors = <<>>
    /\ weights = <<>>
    /\ weights_den = WeightGrid
    /\ similarity = None
    /\ solve_calls = <<>>
    /\ weight_json = Absent

InitHot ==
    /\ \E n \in 1..MaxProfiles : \E h \in [1..n -> RawHistos] :
          built = [i \in 1..n |->
                     [type |-> IF i = 1 THEN "reference" ELSE "sample",
                      source_file |-> i,
                      histo |-> h[i]]]
    /\ result = built
    /\ hotness_compression \in HotnessLevels
    /\ block_compression = FALSE
    /\ compressed_result = None
    /\ recompressed_result = None
    /\ histos_json = Absent
    /\ records = <<>>
    /\ histogram = None
    /\ pc = "hotness_compress"
    /\ error = NoError
    /\ MainIdle
    /\ Stage3Idle

\* compressed_result = hotness_compress(result, hotness_compression)
hotness_compress_call ==
    /\ pc = "hotness_compress"
    /\ LET r == hotness_compress(result, hotness_compression)
       IN  /\ result' = r.arg
           /\ IF r.ok
              THEN /\ compressed_result' = r.value
                   /\ pc' = "compressed"
                   /\ UNCHANGED error
              ELSE /\ Fail(r.error)
                   /\ UNCHANGED compressed_result
    /\ UNCHANGED <<vars3, hotness_compression, block_compression, built,
                   recompressed_result, histos_json, records, histogram, vars1>>

NextHot == hotness_compress_call

SpecHot == InitHot /\ [][NextHot]_vars

\* ------------------------------------------- build_histo.py: block_compress
\* the (key, value) items of every histogram, entry by entry (lines 265-267)
RECURSIVE all_items(_)
all_items(entries) ==
    IF entries = <<>> THEN <<>>
    ELSE Head(entries).histo \o all_items(Tail(entries))

\* the keys of a dict filled in this order: each key at its first insertion
RECURSIVE first_seen(_, _)
first_seen(s, seen) ==
    IF s = <<>> THEN <<>>
    ELSE IF Head(s) \in seen THEN first_seen(Tail(s), seen)
    ELSE <<Head(s)>> \o first_seen(Tail(s), seen \cup {Head(s)})

\* list(merged_dict): the keys of merged_dict in insertion order
merged_keys(entries) ==
    LET items == all_items(entries)
    IN  first_seen([j \in 1..Len(items) |-> items[j][1]], {})

\* histo[key] if key is in histo, else the 0 of line 270
value_in(h, key) ==
    IF \E j \in 1..Len(h) : h[j][1] = key
    THEN h[CHOOSE j \in 1..Len(h) : h[j][1] = key][2]
    ELSE 0

\* merged_dict (lines 264-271): key -> its value in every entry
merged_dict(entries) ==
    [k \in UNION {keys_of(entries[i].histo) : i \in 1..Len(entries)} |->
        [i \in 1..Len(entries) |-> value_in(entries[i].histo, k)]]

\* value_to_keys[value_tuple] (lines 273-276), keys in insertion order
value_to_keys(mk, md, value_tuple) ==
    SelectSeq(mk, LAMBDA k : md[k] = value_tuple)

\* line 280 with the last member of every group as its main key
main_keys_last(mk, md) ==
    SelectSeq(mk, LAMBDA k :
        LET keys == value_to_keys(mk, md, md[k]) IN keys[Len(keys)] = k)

\* the keys of merged_blocks in insertion order: keys[0] of every group
main_keys(mk, md) ==
    SelectSeq(mk, LAMBDA k : value_to_keys(mk, md, md[k])[1] = k)

\* lines 281-285 without the sum: the group keeps the vector of its members
merged_block_unsummed(md, keys) == md[keys[1]]

\* merged_blocks[main_key] (lines 281-285)
merged_block(md, keys) ==
    IF Len(keys) = 1 THEN md[keys[1]]
    ELSE [i \in DOMAIN md[keys[1]] |->
             SumSeq([j \in 1..Len(keys) |-> md[keys[j]][i]])]

\* merged_blocks (lines 278-285) as a function on the main keys
merged_blocks(entries) ==
    LET mk == merged_keys(entries)
        md == merged_dict(entries)
        main == main_keys(mk, md)
    IN  [k \in {main[j] : j \in 1..Len(main)} |->
            merged_block(md, value_to_keys(mk, md, md[k]))]

block_compress(uncompressed_result) ==
    IF uncompressed_result = <<>> THEN <<>>
    ELSE LET mk == merged_keys(uncompressed_result)
             md == merged_dict(uncompressed_result)
             main == main_keys(mk, md)
             blocks == merged_blocks(uncompressed_result)
         IN  [i \in 1..Len(uncompressed_result) |->
                LET kept_keys == SelectSeq(main, LAMBDA k : blocks[k][i] > 0)
                IN  [uncompressed_result[i] EXCEPT
                        !.histo = [j \in 1..Len(kept_keys) |->
                                      <<kept_keys[j], blocks[kept_keys[j]][i]>>]]]

\* --------------------------------------- block_compress called on its own
\* dicts with their keys inserted in any order
RECURSIVE Orderings(_)
Orderings(S) ==
    IF S = {} THEN {<<>>}
    ELSE UNION {{<<x>> \o t : t \in Orderings(S \ {x})} : x \in S}

OrderedHistos ==
    UNION {UNION {{[i \in 1..Len(o) |-> <<o[i], f[o[i]]>>] :
                        f \in [D -> 0..MaxRawCount]} : o \in Orderings(D)} :
           D \in SUBSET Keys}

InitBlock ==
    /\ \E n \in 0..MaxProfiles : \E h \in [1..n -> OrderedHistos] :
          built = [i \in 1..n |->
                     [type |-> IF i = 1 THEN "reference" ELSE "sample",
                      source_file |-> i,
                      histo |-> h[i]]]
    /\ result = built
    /\ hotness_compression = 100
    /\ block_compression = TRUE
    /\ compressed_result = None
    /\ recompressed_result = None
    /\ histos_json = Absent
    /\ records = <<>>
    /\ histogram = None
    /\ pc = "block_compress"
    /\ error = NoError
    /\ MainIdle
    /\ Stage3Idle

\* compressed_result = block_compress(compressed_result) on the built list
block_compress_call ==
    /\ pc = "block_compress"
    /\ compressed_result' = block_compress(result)
    /\ pc' = "block_compressed"
    /\ UNCHANGED <<vars3, hotness_compression, block_compression, built,
                   result, recompressed_result, histos_json, records, histogram,
                   error, vars1>>

\* block_compress applied to the list it returned
block_compress_again ==
    /\ pc = "block_compressed"
    /\ recompressed_result' = block_compress(compressed_result)
    /\ pc' = "block_recompressed"
    /\ UNCHANGED <<vars3, hotness_compression, block_compression, built,
                   result, compressed_result, histos_json, records, histogram,
                   error, vars1>>

NextBlock ==
    \/ block_compress_call
    \/ block_compress_again

SpecBlock == InitBlock /\ [][NextBlock]_vars

\* ------------------------- build_histo.py run_pipeline, then solve_math.py
PipelineLevels == {-1, 0, 50, 100, 101}

InitPipeline ==
    /\ \E n \in 1..MaxProfiles : \E h \in [1..n -> RawHistos] :
          built = [i \in 1..n |->
                     [type |-> IF i = 1 THEN "reference" ELSE "sample",
                      source_file |-> i,
                      histo |-> h[i]]]
    /\ result = built
    /\ hotness_compression \in PipelineLevels
    /\ block_compression \in BOOLEAN
    /\ compressed_result = None
    /\ recompressed_result = None
    /\ histos_json = Absent
    /\ records = <<>>
    /\ histogram = None
    /\ pc = "build_histo_hotness"
    /\ error = NoError
    /\ MainIdle
    /\ Stage3Idle

\* build_histo.py line 327
build_histo_hotness ==
    /\ pc = "build_histo_hotness"
    /\ LET r == hotness_compress(result, hotness_compression)
       IN  /\ result' = r.arg
           /\ IF r.ok
              THEN /\ compressed_result' = r.value
                   /\ pc' = "build_histo_block"
                   /\ UNCHANGED error
              ELSE /\ Fail(r.error)
                   /\ UNCHANGED compressed_result
    /\ UNCHANGED <<vars3, hotness_compression, block_compression, built,
                   recompressed_result, histos_json, records, histogram, vars1>>

\* build_histo.py lines 328-329
build_histo_block ==
    /\ pc = "build_histo_block"
    /\ compressed_result' = IF block_compression
                            THEN block_compress(compressed_result)
                            ELSE compressed_result
    /\ pc' = "build_histo_save"
    /\ UNCHANGED <<vars3, hotness_compression, block_compression, built,
                   result, recompressed_result, histos_json, records,
                   histogram, error, vars1>>

\* build_histo.py line 330: utils.save_json(compressed_result, output_path)
build_histo_save ==
    /\ pc = "build_histo_save"
    /\ histos_json' = compressed_result
    /\ pc' = "build_histo_done"
    /\ UNCHANGED <<vars3, hotness_compression, block_compression, built,
                   result, compressed_result, recompressed_result, records,
                   histogram, error, vars1>>

\* a JSON object read back: identifier -> value
histo_of(h) == [k \in keys_of(h) |-> value_in(h, k)]

\* solve_math.py started on the work directory stage 2 wrote (lines 308-324)
solve_math_start ==
    /\ pc = "build_histo_done"
    /\ data' = [i \in 1..Len(histos_json) |->
                  [histos_json[i] EXCEPT !.histo = histo_of(@)]]
    /\ max_selected_samples' \in 1..MaxSelected
    /\ min_similarity' \in MinSimilarities
    /\ pc' = "load"
    /\ UNCHANGED <<reference, samples, identifiers_to_index, target,
                   sample_vectors, weights, weights_den, similarity,
                   solve_calls, weight_json, vars2, error>>

NextPipeline ==
    \/ build_histo_hotness
    \/ build_histo_block
    \/ build_histo_save
    \/ solve_math_start
    \/ run_pipeline_load
    \/ run_pipeline_solve
    \/ run_pipeline_resolve
    \/ run_pipeline_write

SpecPipeline == InitPipeline /\ [][NextPipeline]_vars

\* --------------------------------------------- the histogram builders
\* {func: val for func, val in data}: a key keeps the place of its first
\* record and the value of its last one
last_value(pairs, key) ==
    pairs[CHOOSE j \in 1..Len(pairs) :
            pairs[j][1] = key /\ \A l \in (j + 1)..Len(pairs) : pairs[l][1] # key][2]

dict_from(pairs) ==
    LET ks == first_seen([j \in 1..Len(pairs) |-> pairs[j][1]], {})
    IN  [j \in 1..Len(ks) |-> <<ks[j], last_value(pairs, ks[j])>>]

\* build_histo.py build_from_raw_histo: the counts as they were read; a
\* histogram is its items over a common denominator
build_from_raw_histo(pairs) == [items |-> dict_from(pairs), den |-> 1]

\* selector.py parse_file: (val / total) * 100 for every record, total > 0
parse_file(pairs) ==
    LET total == SumSeq([j \in 1..Len(pairs) |-> pairs[j][2]])
    IN  IF total > 0
        THEN [items |-> dict_from([j \in 1..Len(pairs) |->
                                      <<pairs[j][1], pairs[j][2] * 100>>]),
              den |-> total]
        ELSE [items |-> <<>>, den |-> 1]

RecordLists ==
    UNION {[1..n -> Keys \X (0..MaxRawCount)] : n \in 0..MaxRecords}

InitBuild ==
    /\ records \in RecordLists
    /\ histogram = None
    /\ hotness_compression = 100
    /\ block_compression = FALSE
    /\ built = <<>>
    /\ result = <<>>
    /\ compressed_result = None
    /\ recompressed_result = None
    /\ histos_json = Absent
    /\ pc = "build"
    /\ error = NoError
    /\ MainIdle
    /\ Stage3Idle

build_from_raw_histo_call ==
    /\ pc = "build"
    /\ histogram' = build_from_raw_histo(records)
    /\ pc' = "raw_histo_built"
    /\ UNCHANGED <<vars3, hotness_compression, block_compression, built,
                   result, compressed_result, recompressed_result,
                   histos_json, records, error, vars1>>

parse_file_call ==
    /\ pc = "build"
    /\ histogram' = parse_file(records)
    /\ pc' = "file_parsed"
    /\ UNCHANGED <<vars3, hotness_compression, block_compression, built,
                   result, compressed_result, recompressed_result,
                   histos_json, records, error, vars1>>

NextBuild ==
    \/ build_from_raw_histo_call
    \/ parse_file_call

SpecBuild == InitBuild /\ [][NextBuild]_vars

\* ------------------------------------------- stage 2: reading a .histo file
\* A line is the list line.strip().split() of its fields.  A field is a
\* word (an identifier), the text of an integer, the text of a decimal
\* number such as 0.00001, or a word starting with "#".
Word(k) == [kind |-> "word", value |-> k]

IntegerText(n) == [kind |-> "integer", value |-> n]

DecimalText == [kind |-> "decimal", value |-> 0]

CommentMark == [kind |-> "comment", value |-> 0]

FirstFields == {Word(k) : k \in Keys} \cup {CommentMark}

OtherFields ==
    {Word(1), DecimalText} \cup {IntegerText(n) : n \in (-1)..MaxRawCount}

HistoLines ==
    {<<>>} \cup
    UNION {{<<f>> \o r : f \in FirstFields, r \in [1..(n - 1) -> OtherFields]} :
           n \in 1..MaxFields}

HistoFiles == UNION {[1..n -> HistoLines] : n \in 0..MaxLines}

\* int(parts[1]): the value, or ValueError
int(field) ==
    IF field.kind = "integer"
    THEN [ok |-> TRUE, value |-> field.value]
    ELSE [ok |-> FALSE, value |-> 0]

Raise(class, message, n) ==
    [class |-> class, message |-> message, line_num |-> n]

parse_raw_histo_line(line, n) ==
    IF line = <<>> \/ line[1].kind = "comment"
    THEN [kind |-> "none"]
    ELSE IF Len(line) >= 2
         THEN IF int(line[2]).ok
              THEN [kind |-> "pair", identifier |-> line[1].value,
                    count |-> int(line[2]).value]
              ELSE [kind |-> "raise",
                    exc |-> Raise("HistoParseError",
                                  <<"Invalid number format in file">>, n)]
         ELSE [kind |-> "raise",
               exc |-> Raise("HistoParseError", <<"Invalid line in file">>, n)]

\* for line_num, line in enumerate(f, start=1): ... data.append(...)
RECURSIVE read_lines(_, _, _)
read_lines(ls, n, pairs) ==
    IF n > Len(ls)
    THEN [ok |-> TRUE, pairs |-> pairs]
    ELSE LET r == parse_raw_histo_line(ls[n], n)
         IN  IF r.kind = "raise"
             THEN [ok |-> FALSE, exc |-> r.exc]
             ELSE read_lines(ls, n + 1,
                             IF r.kind = "pair"
                             THEN Append(pairs, <<r.identifier, r.count>>)
                             ELSE pairs)

\* build_from_raw_histo on a file with the given lines; every exception is
\* raised again as HistoParseError("Error reading the file ...: <text>")
build_from_raw_histo_file(readable, ls) ==
    IF ~readable
    THEN [ok |-> FALSE,
          exc |-> Raise("HistoParseError",
                        <<"Error reading the file", "No such file or directory">>,
                        0)]
    ELSE LET r == read_lines(ls, 1, <<>>)
         IN  IF r.ok
             THEN [ok |-> TRUE, pairs |-> r.pairs,
                   value |-> build_from_raw_histo(r.pairs).items]
             ELSE [ok |-> FALSE,
                   exc |-> Raise("HistoParseError",
                                 <<"Error reading the file">> \o r.exc.message,
                                 r.exc.line_num)]

InitParse ==
    /\ lines \in HistoFiles
    /\ line_num = 0
    /\ work_dir_exists = TRUE
    /\ files_json = Unreadable
    /\ exit_code = None
    /\ stderr = <<>>
    /\ raised = None
    /\ records = <<>>
    /\ histogram = None
    /\ hotness_compression = 100
    /\ block_compression = FALSE
    /\ built = <<>>
    /\ result = <<>>
    /\ compressed_result = None
    /\ recompressed_result = None
    /\ histos_json = Absent
    /\ pc = "read_histo"
    /\ error = NoError
    /\ Stage3Idle

build_from_raw_histo_read ==
    /\ pc = "read_histo"
    /\ LET r == build_from_raw_histo_file(TRUE, lines)
       IN  IF r.ok
           THEN /\ records' = r.pairs
                /\ histogram' = r.value
                /\ pc' = "histo_read"
                /\ UNCHANGED <<raised, line_num>>
           ELSE /\ raised' = r.exc
                /\ line_num' = r.exc.line_num
                /\ pc' = "histo_rejected"
                /\ UNCHANGED <<records, histogram>>
    /\ UNCHANGED <<vars3, hotness_compression, block_compression, built,
                   result, compressed_result, recompressed_result,
                   histos_json, error, lines, work_dir_exists, files_json,
                   exit_code, stderr>>

NextParse == build_from_raw_histo_read

SpecParse == InitParse /\ [][NextParse]_vars

\* ------------------------------------------------ stage 2: main and exits
\* the error classes main and build_histos take from utils: pipeline errors
utils_base_of(class) ==
    IF class \in {"InvalidInputDataError", "OutputResetError", "OutputWriteError"}
    THEN "PipelineError"
    ELSE "Exception"

\* class -> its base class
base_of(class) ==
    CASE class = "UnsupportedFileFormatError" -> "PipelineError"
      [] class = "HistoParseError" -> "PipelineError"
      [] class = "JavaToolError" -> "PipelineError"
      [] class = "PipelineError" -> "Exception"
      [] class = "FileNotFoundError" -> "OSError"
      [] class = "JSONDecodeError" -> "ValueError"
      [] OTHER -> utils_base_of(class)

RECURSIVE issubclass(_, _)
issubclass(class, other) ==
    IF class = other THEN TRUE
    ELSE IF class = "Exception" THEN FALSE
    ELSE issubclass(base_of(class), other)

\* utils.input_json_validation(json_entry, required_keys)
input_json_validation(json_entry) ==
    IF json_entry.has_keys
    THEN [ok |-> TRUE]
    ELSE [ok |-> FALSE,
          exc |-> Raise("InvalidInputDataError", <<"Missing required keys">>, 0)]

\* the histogram the Java tool prints for a .jfr file it can parse
JfrHisto == <<<<1, 1>>>>

build_from_jfr(json_entry) ==
    CASE json_entry.tool = "ok" -> [ok |-> TRUE, value |-> JfrHisto]
      [] json_entry.tool = "failed" ->
            [ok |-> FALSE,
             exc |-> Raise("JavaToolError", <<"Failed to parse JFR file">>, 0)]
      [] OTHER ->
            [ok |-> FALSE,
             exc |-> Raise("JSONDecodeError", <<"Expecting value">>, 0)]

build_histo_from_profile(json_entry) ==
    IF json_entry.extension = "histo"
    THEN build_from_raw_histo_file(json_entry.readable, json_entry.lines)
    ELSE IF json_entry.extension = "jfr"
    THEN build_from_jfr(json_entry)
    ELSE [ok |-> FALSE,
          exc |-> Raise("UnsupportedFileFormatError",
                        <<"Unsupported file format">>, 0)]

RECURSIVE build_histos_from(_, _, _)
build_histos_from(profiles, i, out) ==
    IF i > Len(profiles)
    THEN [ok |-> TRUE, value |-> out]
    ELSE LET v == input_json_validation(profiles[i])
             h == build_histo_from_profile(profiles[i])
         IN  IF ~v.ok THEN [ok |-> FALSE, exc |-> v.exc]
             ELSE IF ~h.ok THEN [ok |-> FALSE, exc |-> h.exc]
             ELSE build_histos_from(profiles, i + 1,
                      Append(out, [type |-> profiles[i].type,
                                   source_file |-> profiles[i].source_file,
                                   histo |-> h.value]))

build_histos(profiles) == build_histos_from(profiles, 1, <<>>)

\* build_histo.py run_pipeline: what it raises, or what it saves
build_histo_run_pipeline(exists, files, hc, bc, saves) ==
    IF ~exists
    THEN [ok |-> FALSE, built |-> <<>>, result |-> <<>>,
          exc |-> Raise("FileNotFoundError",
                        <<"--work-dir=", " does not exist.">>, 0)]
    ELSE IF ~files.readable
    THEN [ok |-> FALSE, built |-> <<>>, result |-> <<>>,
          exc |-> Raise("FileNotFoundError",
                        <<"Failed to load input json file: ">>, 0)]
    ELSE LET b == build_histos(files.profiles)
         IN  IF ~b.ok
             THEN [ok |-> FALSE, built |-> <<>>, result |-> <<>>, exc |-> b.exc]
             ELSE LET h == hotness_compress(b.value, hc)
                  IN  IF ~h.ok
                      THEN [ok |-> FALSE, built |-> b.value, result |-> h.arg,
                            exc |-> Raise("ValueError", <<h.error>>, 0)]
                      ELSE IF ~saves
                      THEN [ok |-> FALSE, built |-> b.value, result |-> h.arg,
                            exc |-> Raise("PipelineError",
                                          <<"Failed to write output JSON: ">>, 0)]
                      ELSE [ok |-> TRUE, built |-> b.value, result |-> h.arg,
                            value |-> IF bc THEN block_compress(h.value)
                                      ELSE h.value]

\* the except clauses of main, in order
main_handlers_general_first ==
    << [classes |-> {"PipelineError"}, prefix |-> "[ERROR] ", code |-> 1],
       [classes |-> {"UnsupportedFileFormatError", "InvalidInputDataError"},
        prefix |-> "[ERROR] ", code |-> 2],
       [classes |-> {"HistoParseError", "JavaToolError", "OutputResetError",
                     "OutputWriteError"},
        prefix |-> "[ERROR] ", code |-> 4],
       [classes |-> {"FileNotFoundError"},
        prefix |-> "[ERROR] File not found: ", code |-> 5],
       [classes |-> {"Exception"},
        prefix |-> "[ERROR] An unexpected error occurred: ", code |-> 1] >>

main_handlers ==
    << [classes |-> {"UnsupportedFileFormatError", "InvalidInputDataError"},
        prefix |-> "[ERROR] ", code |-> 2],
       [classes |-> {"HistoParseError", "JavaToolError", "OutputResetError",
                     "OutputWriteError"},
        prefix |-> "[ERROR] ", code |-> 4],
       [classes |-> {"FileNotFoundError"},
        prefix |-> "[ERROR] File not found: ", code |-> 5],
       [classes |-> {"PipelineError"}, prefix |-> "[ERROR] ", code |-> 1],
       [classes |-> {"Exception"},
        prefix |-> "[ERROR] An unexpected error occurred: ", code |-> 1] >>

catches(handler, exc) == \E c \in handler.classes : issubclass(exc.class, c)

handler_of(exc) ==
    main_handlers[CHOOSE k \in 1..Len(main_handlers) :
                      /\ catches(main_handlers[k], exc)
                      /\ \A j \in 1..(k - 1) : ~catches(main_handlers[j], exc)]

DefaultHotness == 97

MainLevels == {DefaultHotness, 101}

MainLines == {l \in HistoLines : Len(l) < MaxFields}

MainFiles == {<<>>} \cup {<<l>> : l \in MainLines}

ProfileFiles ==
    {[extension |-> "histo", readable |-> TRUE, lines |-> f, tool |-> "ok"] :
        f \in MainFiles}
    \cup {[extension |-> "histo", readable |-> FALSE, lines |-> <<>>,
           tool |-> "ok"]}
    \cup {[extension |-> "jfr", readable |-> TRUE, lines |-> <<>>, tool |-> t] :
            t \in {"ok", "failed", "invalid"}}
    \cup {[extension |-> "txt", readable |-> TRUE, lines |-> <<>>, tool |-> "ok"]}

ProfileLists ==
    UNION {{[i \in 1..n |->
               [type |-> IF i = 1 THEN "reference" ELSE "sample",
                source_file |-> i,
                has_keys |-> k[i],
                extension |-> f[i].extension,
                readable |-> f[i].readable,
                lines |-> f[i].lines,
                tool |-> f[i].tool]] :
              f \in [1..n -> ProfileFiles], k \in [1..n -> BOOLEAN]} :
           n \in 0..MaxProfiles}

InitMain ==
    /\ work_dir_exists \in BOOLEAN
    /\ files_json \in {Unreadable} \cup
                      {[readable |-> TRUE, profiles |-> p] : p \in ProfileLists}
    /\ hotness_compression \in MainLevels
    /\ block_compression \in BOOLEAN
    /\ lines = <<>>
    /\ line_num = 0
    /\ exit_code = None
    /\ stderr = <<>>
    /\ raised = None
    /\ records = <<>>
    /\ histogram = None
    /\ built = <<>>
    /\ result = <<>>
    /\ compressed_result = None
    /\ recompressed_result = None
    /\ histos_json = Absent
    /\ pc = "main"
    /\ error = NoError
    /\ Stage3Idle

\* build_histo.py main: run_pipeline, then the matching except clause
build_histo_main ==
    /\ pc = "main"
    /\ \E saves \in BOOLEAN :
          LET r == build_histo_run_pipeline(work_dir_exists, files_json,
                       hotness_compression, block_compression, saves)
          IN  /\ built' = r.built
              /\ result' = r.result
              /\ IF r.ok
                 THEN /\ compressed_result' = r.value
                      /\ histos_json' = r.value
                      /\ exit_code' = 0
                      /\ UNCHANGED <<raised, stderr, line_num>>
                 ELSE /\ raised' = r.exc
                      /\ line_num' = r.exc.line_num
                      /\ exit_code' = handler_of(r.exc).code
                      /\ stderr' = <<handler_of(r.exc).prefix>> \o r.exc.message
                      /\ UNCHANGED <<compressed_result, histos_json>>
    /\ pc' = "exited"
    /\ UNCHANGED <<vars3, hotness_compression, block_compression,
                   recompressed_result, records, histogram, error, lines,
                   work_dir_exists, files_json>>

NextMain == build_histo_main

SpecMain == InitMain /\ [][NextMain]_vars

\* ================================================================ claims
Last(s) == s[Len(s)]

emitted == weight_json.selected_samples

emitted_sum == SumSeq([k \in 1..Len(emitted) |-> emitted[k].weight])

\* the bound of the solve whose result run_pipeline writes
written_bound ==
    IF Len(solve_calls) = 1 THEN max_selected_samples ELSE Len(samples)

\* what histos.json holds, read off the file and not off load_histograms
reference_positions == {i \in DOMAIN data : data[i].type = "reference"}

usable_positions ==
    {i \in DOMAIN data : data[i].type = "sample" /\ DOMAIN data[i].histo # {}}

the_reference == data[CHOOSE i \in reference_positions : TRUE]

expected_load_error ==
    IF reference_positions = {} THEN "No reference histogram found."
    ELSE IF Cardinality(reference_positions) > 1
    THEN "Expected exactly one reference histogram"
    ELSE IF DOMAIN the_reference.histo = {} THEN "Reference histogram is empty."
    ELSE IF usable_positions = {} THEN "Sample histograms not found."
    ELSE NoError

\* a bounded solve at k can reach min_similarity
reaches(k) ==
    \E w \in solve_optimization(sample_vectors, target, k) :
        ~SimLess(similarity_of(sample_vectors, target, w), min_similarity)

\* C1 (as stated): in every successful run, the second-solve path included,
\* the number of samples written to selected_samples is at most
\* max_selected_samples.
C1_Original ==
    pc = "done" => Len(emitted) <= max_selected_samples

\* C1 (amended): in every successful run the number of samples written is at
\* most the bound of the solve whose result is written: max_selected_samples
\* when only the first solve was made, the number of usable samples when the
\* second solve was made.
C1_SelectedWithinWrittenBound ==
    pc = "done" => Len(emitted) <= written_bound

C1_Witness ==
    /\ pc = "done"
    /\ Len(solve_calls) = 2
    /\ Len(emitted) > max_selected_samples

\* C2: when write_output succeeds on non-negative weights that sum to 1,
\* every emitted 4-decimal weight lies in [0, 1] and the emitted weights sum
\* to exactly 1.0000.
C2_EmittedWeightsSumToOne ==
    (/\ pc = "done"
     /\ \A i \in 1..Len(weights) : weights[i] >= 0
     /\ SumSeq(weights) = weights_den)
    => /\ \A k \in 1..Len(emitted) :
             0 <= emitted[k].weight /\ emitted[k].weight <= WeightScale
       /\ emitted_sum = WeightScale

C2_Witness ==
    /\ pc = "done"
    /\ SumSeq(weights) = weights_den
    /\ Len(emitted) = 3
    /\ SumSeq(rounded_of(weights, weights_den)) # WeightScale
    /\ emitted_sum = WeightScale

C4_OneFallbackSolve ==
    /\ pc \in {"write", "done"} =>
          /\ solve_calls[1].max_selected = max_selected_samples
          /\ IF SimLess(solve_calls[1].similarity, min_similarity)
             THEN /\ Len(solve_calls) = 2
                  /\ solve_calls[2].max_selected = Len(samples)
             ELSE Len(solve_calls) = 1
    /\ pc = "done" =>
          weight_json.similarity =
              RoundTo(Last(solve_calls).similarity.num,
                      Last(solve_calls).similarity.den, SimilarityScale)
    /\ (pc = "failed" /\ Len(solve_calls) = 2) =>
          \/ Last(solve_calls).similarity = None
          \/ error = "Unable to normalize weights to sum to 1.0."

C4_Witness ==
    /\ pc = "done"
    /\ Len(solve_calls) = 2
    /\ SimLess(solve_calls[2].similarity, min_similarity)
    /\ weight_json # Absent

\* C5 (as stated): a run whose final similarity is exactly 0 ends in a fatal
\* error and writes no weight.json.
C5_Original ==
    (/\ pc \in {"done", "failed"}
     /\ solve_calls # <<>>
     /\ Last(solve_calls).similarity # None
     /\ SimIsZero(Last(solve_calls).similarity))
    => (pc = "failed" /\ weight_json = Absent)

\* C5 (amended): a final similarity of exactly 0 is no error: the run ends
\* normally and writes weight.json with similarity 0.0; it fails only when a
\* solve or the weight repair fails.
C5_ZeroSimilarityIsWritten ==
    (/\ solve_calls # <<>>
     /\ Last(solve_calls).similarity # None
     /\ SimIsZero(Last(solve_calls).similarity))
    => /\ pc = "done" => (weight_json # Absent /\ weight_json.similarity = 0)
       /\ pc = "failed" => error = "Unable to normalize weights to sum to 1.0."

C5_Witness ==
    /\ pc = "done"
    /\ SimIsZero(similarity)
    /\ weight_json # Absent
    /\ weight_json.similarity = 0
    /\ Len(emitted) >= 1

\* C6: when loading/validation, a solver call or the weight repair fails, the
\* run ends with an error and weight.json is not written; the file is written
\* only after every preceding step succeeded, and write_output raises before
\* saving when the weights cannot be repaired.
C6_NoOutputOnFailure ==
    /\ pc = "failed" => (weight_json = Absent /\ error # NoError)
    /\ pc \notin {"done", "failed"} => weight_json = Absent
    /\ weight_json # Absent =>
          /\ pc = "done"
          /\ error = NoError
          /\ emitted_sum = WeightScale
          /\ \A c \in 1..Len(solve_calls) : solve_calls[c].similarity # None
          /\ data # <<>> => (expected_load_error = NoError /\ solve_calls # <<>>)

C6_Witness ==
    /\ pc = "failed"
    /\ error = "Unable to normalize weights to sum to 1.0."
    /\ Len(weights) >= 1
    /\ weight_json = Absent

C8_ZeroMassReferenceRejected ==
    (/\ pc # "load"
     /\ Cardinality(reference_positions) = 1
     /\ usable_positions # {}
     /\ HistoTotal(the_reference.histo) = 0)
    => /\ pc = "failed"
       /\ error = "Reference histogram is empty."
       /\ solve_calls = <<>>

\* the kept keys of entry i of a list of entries
kept(entries, i) == keys_of(entries[i].histo)

\* C9: hotness_compress with hotness_compression = 100 is the identity: the
\* returned entries and their histograms equal the input exactly.
C9_HotnessIdentityAt100 ==
    (pc # "hotness_compress" /\ hotness_compression = 100)
    => /\ pc = "compressed"
       /\ compressed_result = built
       /\ result = built

C9_Witness ==
    /\ pc = "compressed"
    /\ hotness_compression = 100
    /\ Len(built) = 2
    /\ \E i \in 1..Len(built) : \E j \in 1..Len(built[i].histo) :
          built[i].histo[j][2] = 0
    /\ compressed_result = built

\* C10: hotness compression is monotone in the threshold: for non-negative
\* counts and thresholds f1 < f2 in 0..100 the identifiers kept at f1 are a
\* subset of those kept at f2.
C10_HotnessMonotone ==
    (pc = "compressed") =>
        \A f2 \in (hotness_compression + 1)..100 :
            \A i \in 1..Len(built) :
                kept(compressed_result, i)
                    \subseteq kept(hotness_compress(built, f2).value, i)

C10_Witness ==
    /\ pc = "compressed"
    /\ hotness_compression < 100
    /\ \E i \in 1..Len(built) : \E f2 \in (hotness_compression + 1)..99 :
          /\ kept(compressed_result, i) # {}
          /\ kept(compressed_result, i) # kept(hotness_compress(built, f2).value, i)
          /\ kept(hotness_compress(built, f2).value, i) # keys_of(built[i].histo)

\* every identifier of the list of entries handed to block_compress
input_keys == UNION {keys_of(built[i].histo) : i \in 1..Len(built)}

\* the merge group of k: the identifiers with k's value in every profile
group_of(k) ==
    {q \in input_keys :
        \A i \in 1..Len(built) :
            value_in(built[i].histo, q) = value_in(built[i].histo, k)}

\* the first member of a group in the order the identifiers are met
representative(G) ==
    LET mk == merged_keys(built)
        pos(q) == CHOOSE j \in 1..Len(mk) : mk[j] = q
    IN  CHOOSE q \in G : \A r \in G : pos(q) <= pos(r)

group_sum(G, i) ==
    LET members == SortedSeq(G)
    IN  SumSeq([j \in 1..Len(members) |-> value_in(built[i].histo, members[j])])

\* a dict as the set of its items, whatever their order
dict_of(h) == {h[j] : j \in 1..Len(h)}

C14_BlockIdempotent ==
    pc = "block_recompressed" =>
        /\ Len(recompressed_result) = Len(compressed_result)
        /\ \A i \in 1..Len(compressed_result) :
              dict_of(recompressed_result[i].histo)
                  = dict_of(compressed_result[i].histo)


\* C11: hotness_compress called with hotness_compression below 0 or above 100
\* fails with the validation error before the histogram of any entry is
\* modified; in the stage-2 pipeline the failure comes before histos.json is
\* written and before any solve, and no threshold in 0..100 is rejected.
C11_RangeErrorBeforeAnyEffect ==
    /\ (pc # "build_histo_hotness"
        /\ (hotness_compression < 0 \/ hotness_compression > 100))
       => /\ pc = "failed"
          /\ error = "HOTNESS_COMPRESSION must be between 0 and 100"
          /\ result = built
          /\ compressed_result = None
          /\ histos_json = Absent
          /\ data = <<>>
          /\ solve_calls = <<>>
          /\ weight_json = Absent
    /\ (pc = "failed" /\ error = "HOTNESS_COMPRESSION must be between 0 and 100")
       => (hotness_compression < 0 \/ hotness_compression > 100)

C11_Witness ==
    /\ pc = "failed"
    /\ hotness_compression > 100
    /\ error = "HOTNESS_COMPRESSION must be between 0 and 100"
    /\ Len(built) = 2
    /\ \A i \in 1..Len(built) : values_sum(built[i].histo) > 0
    /\ built[1].histo # sorted_histo_of(built[1].histo)
    /\ result = built
    /\ histos_json = Absent

\* C12 (as stated): with hotness_compression = 0, hotness_compress returns an
\* empty histogram for every profile, whatever the input histogram (zero-count
\* entries included), and stage 3 then fails validation for lack of a usable
\* reference or sample.
C12_ZeroThresholdEmptiesAll ==
    (hotness_compression = 0 /\ pc # "build_histo_hotness")
    => /\ \A i \in 1..Len(compressed_result) :
             compressed_result[i].histo = <<>>
       /\ pc \notin {"solve", "check", "write", "done"}
       /\ pc = "failed" =>
             error \in {"Reference histogram is empty.",
                        "Sample histograms not found."}


records_total == SumSeq([j \in 1..Len(records) |-> records[j][2]])

\* C15 (as stated): for every non-empty sequence of (identifier, raw_count)
\* records with positive total, repeated identifiers included, the histogram
\* built maps each identifier to raw_count / total * 100 and its values sum to
\* 100; for total 0 the histogram built is empty.
C15_BuilderNormalizes ==
    pc \in {"raw_histo_built", "file_parsed"} =>
        IF records_total > 0
        THEN /\ \A j \in 1..Len(records) :
                   value_in(histogram.items, records[j][1]) * records_total
                       = records[j][2] * 100 * histogram.den
             /\ values_sum(histogram.items) = 100 * histogram.den
        ELSE histogram.items = <<>>


\* two vectors with the same entries
same_vector(a, b) ==
    \A i \in 1..Len(a.num) : a.num[i] * b.den = b.num[i] * a.den

\* the solves of the run that returned a result
solved == {c \in 1..Len(solve_calls) : solve_calls[c].similarity # None}

\* C16 (as stated): every similarity computed in a run lies in [0, 100], and
\* it is 100 when the normalized mixture equals the target.
C16_SimilarityBoundAndMaximum ==
    /\ \A c \in solved :
          /\ 0 <= solve_calls[c].similarity.num
          /\ solve_calls[c].similarity.num <= 100 * solve_calls[c].similarity.den
    /\ (/\ pc \in {"check", "write", "done"}
        /\ same_vector(normalize(mixture(sample_vectors, weights)), target))
       => similarity.num = 100 * similarity.den

\* some weights within the bound k give the target exactly
reproducible(k) ==
    \E w \in feasible(Len(sample_vectors), k) :
        objective(sample_vectors, target, w) = 0

\* C17 (as stated): when the normalized target is a convex combination of at
\* most max_selected normalized sample vectors, the bounded solve, if it
\* returns, returns weights whose mixture is the target, and the run reports
\* similarity 100.0.
C17_ExactMixtureReports100 ==
    (/\ pc \in {"check", "write", "done"}
     /\ reproducible(max_selected_samples))
    => /\ same_vector(mixture(sample_vectors, weights), target)
       /\ similarity.num = 100 * similarity.den
       /\ pc = "done" => weight_json.similarity = 100 * SimilarityScale

\* sample j has mass on an identifier that the reference does not have
off_reference(j) ==
    \E k \in DOMAIN samples[j].histo :
        samples[j].histo[k] > 0 /\ k \notin DOMAIN reference.histo

emitted_paths == {emitted[k].sample_path : k \in 1..Len(emitted)}

\* C18: in a run where some mixture within the cardinality bound reproduces
\* the target exactly, every sample with mass on an identifier absent from
\* the reference gets weight 0 and is not written to selected_samples, also
\* when max_selected would allow selecting it.
C18_OffReferenceSampleUnselected ==
    (/\ pc \in {"check", "write", "done"}
     /\ reproducible(max_selected_samples))
    => \A j \in 1..Len(samples) :
          off_reference(j) =>
             /\ weights[j] = 0
             /\ pc = "done" => samples[j].source_file \notin emitted_paths

C18_Witness ==
    /\ pc = "done"
    /\ Len(samples) = 2
    /\ max_selected_samples = 2
    /\ ~off_reference(1)
    /\ off_reference(2)
    /\ weights = <<WeightGrid, 0>>
    /\ Len(emitted) = 1
    /\ emitted[1].sample_path = samples[1].source_file
    /\ emitted[1].weight = WeightScale
    /\ weight_json.similarity = 100 * SimilarityScale

\* C19 (as stated): for fixed target and sample vectors the similarity of an
\* optimal bounded solve is non-decreasing in max_selected, zero-mass sample
\* vectors included: the solve at the larger bound that follows the solve at
\* max_selected_samples has a similarity at least as large.
C19_SimilarityMonotoneInBound ==
    (/\ Len(solve_calls) = 2
     /\ solved = {1, 2}
     /\ solve_calls[1].max_selected < solve_calls[2].max_selected)
    => solve_calls[1].similarity.num * solve_calls[2].similarity.den
          <= solve_calls[2].similarity.num * solve_calls[1].similarity.den

\* C20 (as stated): with min_similarity > 0 a solver failure at the probed
\* bound does not abort the run: the run goes on to the final solve, and only
\* a failure of that one is fatal.
C20_Original ==
    (/\ pc \in {"done", "failed"}
     /\ min_similarity > 0
     /\ solve_calls # <<>>
     /\ solve_calls[1].similarity = None)
    => Len(solve_calls) = 2

\* C20 (amended): a solver failure is fatal in every solve, also with
\* min_similarity > 0: the run ends with "Optimization failed.", no further
\* solve is made and weight.json is not written.
C20_AnySolverFailureIsFatal ==
    \A c \in 1..Len(solve_calls) :
        solve_calls[c].similarity = None =>
            /\ c = Len(solve_calls)
            /\ pc = "failed"
            /\ error = "Optimization failed."
            /\ weight_json = Absent

C20_Witness ==
    /\ pc = "failed"
    /\ min_similarity > 0
    /\ Len(solve_calls) = 1
    /\ solve_calls[1].similarity = None
    /\ max_selected_samples < Len(samples)
    /\ error = "Optimization failed."
    /\ weight_json = Absent


\* ---------------------------------------------------------------- C21
skipped(line) == line = <<>> \/ line[1].kind = "comment"

well_formed(line) ==
    /\ Len(line) = 2
    /\ line[2].kind = "integer"
    /\ line[2].value >= 0

first_malformed(ls) ==
    CHOOSE n \in 1..Len(ls) :
        /\ ~skipped(ls[n]) /\ ~well_formed(ls[n])
        /\ \A m \in 1..(n - 1) : skipped(ls[m]) \/ well_formed(ls[m])

\* C21: a .histo file is read only when each of its lines is blank, a
\* comment, or exactly an identifier and a non-negative integer count; the
\* records read are those lines in order.  Otherwise the file is rejected
\* with a parse error naming the first malformed line: "Invalid line in
\* file" when the line is not exactly two fields, "Invalid number format in
\* file" when its count is not an integer.
C21_MalformedRecordsRejected ==
    /\ pc = "histo_read" =>
          /\ \A n \in 1..Len(lines) : skipped(lines[n]) \/ well_formed(lines[n])
          /\ Len(records) = Cardinality({n \in 1..Len(lines) : ~skipped(lines[n])})
    /\ pc = "histo_rejected" =>
          /\ raised.class = "HistoParseError"
          /\ line_num = first_malformed(lines)
          /\ Len(lines[line_num]) # 2 =>
                Last(raised.message) = "Invalid line in file"
          /\ (Len(lines[line_num]) = 2 /\ lines[line_num][2].kind # "integer") =>
                Last(raised.message) = "Invalid number format in file"


\* ---------------------------------------------------------------- C22
\* what is wrong with one entry of files.json, judged from the entry alone
fault_of(p) ==
    IF ~p.has_keys THEN "keys"
    ELSE IF p.extension = "histo"
    THEN IF ~p.readable THEN "read"
         ELSE IF \E n \in 1..Len(p.lines) :
                    ~skipped(p.lines[n]) /\
                    (Len(p.lines[n]) < 2 \/ p.lines[n][2].kind # "integer")
         THEN "parse"
         ELSE "none"
    ELSE IF p.extension = "jfr"
    THEN (IF p.tool = "ok" THEN "none" ELSE "tool")
    ELSE "format"

first_fault ==
    LET ps == files_json.profiles
    IN  IF \A i \in 1..Len(ps) : fault_of(ps[i]) = "none" THEN "none"
        ELSE fault_of(ps[CHOOSE i \in 1..Len(ps) :
                            /\ fault_of(ps[i]) # "none"
                            /\ \A j \in 1..(i - 1) : fault_of(ps[j]) = "none"])

in_stderr(text) == \E k \in 1..Len(stderr) : stderr[k] = text

hotter(x, y) == x[2] > y[2] \/ (x[2] = y[2] /\ x[1] < y[1])

dropped_items(i) == dict_of(built[i].histo) \ dict_of(compressed_result[i].histo)

met_profile(k) ==
    CHOOSE i \in 1..Len(built) :
        /\ k \in keys_of(built[i].histo)
        /\ \A j \in 1..(i - 1) : k \notin keys_of(built[j].histo)

met_position(k) ==
    CHOOSE j \in 1..Len(built[met_profile(k)].histo) :
        built[met_profile(k)].histo[j][1] = k

met_before(k, q) ==
    \/ met_profile(k) < met_profile(q)
    \/ met_profile(k) = met_profile(q) /\ met_position(k) <= met_position(q)

first_member(G) == CHOOSE k \in G : \A q \in G : met_before(k, q)

residual == WeightScale - SumSeq(rounded_of(weights, weights_den))

\* the emitted weight k with the residual added stays in [0, 1]
absorbs(k) ==
    /\ 0 <= rounded_of(weights, weights_den)[k] + residual
    /\ rounded_of(weights, weights_den)[k] + residual <= WeightScale

\* C25: when the rounded weights do not sum to 1.0000, write_output adds the
\* residual to the first emitted weight that stays in [0, 1] with it and
\* leaves every other weight as rounded; when no weight qualifies it fails
\* and saves nothing; when the rounded weights sum to 1.0000 none is changed.
C25_ResidualToFirstFittingWeight ==
    pc \in {"done", "failed"} =>
        LET r == rounded_of(weights, weights_den)
        IN  /\ residual = 0 =>
                  /\ pc = "done"
                  /\ Len(emitted) = Len(r)
                  /\ \A k \in 1..Len(r) : emitted[k].weight = r[k]
            /\ (residual # 0 /\ \E k \in 1..Len(r) : absorbs(k)) =>
                  /\ pc = "done"
                  /\ Len(emitted) = Len(r)
                  /\ \A k \in 1..Len(r) :
                        emitted[k].weight =
                            IF absorbs(k) /\ \A j \in 1..(k - 1) : ~absorbs(j)
                            THEN r[k] + residual
                            ELSE r[k]
            /\ (residual # 0 /\ \A k \in 1..Len(r) : ~absorbs(k)) =>
                  /\ pc = "failed"
                  /\ weight_json = Absent

\* the first weight cannot take the residual, a later one takes it
C25_Witness ==
    /\ pc = "done"
    /\ Len(emitted) = MaxWeights
    /\ residual # 0
    /\ ~absorbs(1)
    /\ absorbs(2)
    /\ absorbs(MaxWeights)
    /\ emitted[2].weight = rounded_of(weights, weights_den)[2] + residual
    /\ emitted[MaxWeights].weight = rounded_of(weights, weights_den)[MaxWeights]


\* ---------------------------------------------------------------- C26
\* C26: no stage modifies the list handed to it: after hotness_compress, for
\* every threshold in 0..100, and after block_compress the list of entries
\* that was passed in still holds the histograms it held before the call.
C26_NoInPlaceMutation ==
    pc \in {"build_histo_block", "build_histo_save", "build_histo_done"} =>
        result = built


\* ---------------------------------------------------------------- C27
\* the identifiers of the reference and of the usable samples
loaded_ids ==
    DOMAIN reference.histo
        \cup UNION {DOMAIN samples[j].histo : j \in 1..Len(samples)}

count_in(h, k) == IF k \in DOMAIN h THEN h[k] ELSE 0

histo_mass(h) ==
    LET ks == SortedSeq(DOMAIN h)
    IN  SumSeq([i \in 1..Len(ks) |-> h[ks[i]]])

\* vector v is histogram h laid out by the index and scaled to sum to 100,
\* or the zero vector when h has total 0
projected(v, h) ==
    /\ Len(v.num) = Cardinality(loaded_ids)
    /\ v.den > 0
    /\ \A k \in loaded_ids :
          IF histo_mass(h) = 0
          THEN v.num[identifiers_to_index[k] + 1] = 0
          ELSE v.num[identifiers_to_index[k] + 1] * histo_mass(h)
                   = 100 * count_in(h, k) * v.den
    /\ SumSeq(v.num) = IF histo_mass(h) = 0 THEN 0 ELSE 100 * v.den

\* C27: the identifier index maps the identifiers of the reference and the
\* usable samples one-to-one onto 0..N-1 in sorted order; the target and
\* every sample vector have length N, hold 0 for identifiers their histogram
\* lacks, and sum to 100, or are the zero vector when the total is 0.
C27_IndexAndProjection ==
    pc \in {"solve", "check", "write", "done"} =>
        /\ DOMAIN identifiers_to_index = loaded_ids
        /\ {identifiers_to_index[k] : k \in loaded_ids}
              = 0..(Cardinality(loaded_ids) - 1)
        /\ \A k, q \in loaded_ids :
              k < q => identifiers_to_index[k] < identifiers_to_index[q]
        /\ projected(target, reference.histo)
        /\ Len(sample_vectors) = Len(samples)
        /\ \A j \in 1..Len(samples) : projected(sample_vectors[j], samples[j].histo)

C27_Witness ==
    /\ pc = "done"
    /\ Cardinality(loaded_ids) = NumIds
    /\ \E j, l \in 1..Len(samples) :
          /\ histo_mass(samples[j].histo) = 0
          /\ histo_mass(samples[l].histo) > 0
          /\ DOMAIN samples[l].histo # loaded_ids
          /\ SumSeq(sample_vectors[l].num) = 100 * sample_vectors[l].den
    /\ DOMAIN reference.histo # loaded_ids


\* ---------------------------------------------------------------- C28
\* C28: every entry write_output writes to selected_samples has a strictly
\* positive weight: no raw weight above 1e-6 is emitted as 0.0000 after
\* rounding, and the rounding repair lowers no weight to 0.
C28_EmittedWeightsPositive ==
    pc = "done" => \A k \in 1..Len(emitted) : emitted[k].weight > 0


\* ---------------------------------------------------------------- C29
\* the positions in the input list of the samples with a non-empty histogram
usable_in_order ==
    SelectSeq([i \in 1..Len(data) |-> i],
              LAMBDA i : data[i].type = "sample" /\ DOMAIN data[i].histo # {})

\* C29: weight j of the solve belongs to the j-th usable sample of the input
\* list, and the entries of selected_samples are, in input order, the source
\* files of exactly the usable samples whose weight is above 1e-6, each with
\* the weight of its own vector, wherever samples with an empty histogram
\* stand in the list.
C29_PathsFollowWeights ==
    pc = "done" =>
        LET u == usable_in_order
            chosen == SelectSeq([j \in 1..Len(u) |-> j],
                                LAMBDA j : weights[j] * SelectEps > weights_den)
        IN  /\ Len(sample_vectors) = Len(u)
            /\ Len(weights) = Len(u)
            /\ \A j \in 1..Len(u) :
                  projected(sample_vectors[j], data[u[j]].histo)
            /\ Len(emitted) = Len(chosen)
            /\ \A k \in 1..Len(chosen) :
                  /\ emitted[k].sample_path = data[u[chosen[k]]].source_file
                  /\ emitted[k].weight * weights_den
                        = weights[chosen[k]] * WeightScale
            /\ \A k, l \in 1..Len(emitted) :
                  k < l => emitted[k].sample_path < emitted[l].sample_path

\* a sample with an empty histogram stands between two usable samples and
\* the usable sample after it is selected
C29_Witness ==
    /\ pc = "done"
    /\ \E a, b, c \in 1..Len(data) :
          /\ a < b /\ b < c
          /\ data[a].type = "sample" /\ DOMAIN data[a].histo # {}
          /\ data[b].type = "sample" /\ DOMAIN data[b].histo = {}
          /\ data[c].type = "sample" /\ DOMAIN data[c].histo # {}
          /\ \E k \in 1..Len(emitted) :
                emitted[k].sample_path = data[c].source_file
          /\ \A k \in 1..Len(emitted) :
                emitted[k].sample_path # data[a].source_file


\* ---------------------------------------------------------------- C30
\* C30: for every threshold in 0..99 and every histogram with non-negative
\* counts and a positive total, hotness_compress drops at least one
\* identifier with a positive count; a histogram whose hottest identifier
\* alone exceeds threshold% of the total, a single-identifier histogram in
\* particular, is compressed to the empty histogram.
C30_HotnessAlwaysDrops ==
    (pc = "compressed" /\ hotness_compression < 100) =>
        \A i \in 1..Len(built) :
            LET h == built[i].histo
                c == compressed_result[i].histo
            IN  values_sum(h) > 0 =>
                    /\ \E x \in dict_of(h) : x[2] > 0 /\ x[1] \notin keys_of(c)
                    /\ (\E x \in dict_of(h) :
                           100 * x[2] > hotness_compression * values_sum(h))
                       => c = <<>>
                    /\ Len(h) = 1 => c = <<>>

C30_Witness ==
    /\ pc = "compressed"
    /\ hotness_compression = 99
    /\ Len(built) = MaxProfiles
    /\ Len(built[1].histo) = 1
    /\ values_sum(built[1].histo) > 0
    /\ compressed_result[1].histo = <<>>
    /\ Len(built[MaxProfiles].histo) = NumKeys
    /\ compressed_result[MaxProfiles].histo # <<>>
    /\ Len(compressed_result[MaxProfiles].histo) < NumKeys


TypeOK ==
    pc \in {"load", "solve", "check", "write", "write_output", "done", "failed",
            "hotness_compress", "compressed", "block_compress",
            "block_compressed", "block_recompressed", "build_histo_hotness",
            "build_histo_block", "build_histo_save", "build_histo_done",
            "build", "raw_histo_built", "file_parsed", "read_histo",
            "histo_read", "histo_rejected", "main", "exited"}
====
